---- MODULE Spec2Model ----
(***************************************************************************)
(* Model of slack_delete_messages.py: main() validates the command line,   *)
(* pages through search.messages collecting the records to delete, then    *)
(* posts chat.delete for each record, retrying on HTTP 429.                *)
(*                                                                         *)
(* A Python str is a sequence of one-character strings, so that the        *)
(* regular expressions and str.replace are computed character by           *)
(* character.  None and an unbound local are the empty sequence.           *)
(***************************************************************************)
EXTENDS Integers, Sequences, FiniteSets, TLC

(***************************************************************************)
(* Bounds of the model.                                                    *)
(***************************************************************************)
\* params["page"] never exceeds MaxPage: the loop of the code is unbounded.
MaxPage == 2
\* the largest page_count the server reports
MaxPageCount == 2
\* the number of HTTP 429 answers the server gives in one run
MaxRateLimits == 2

(***************************************************************************)
(* Characters and the character classes of the regular expressions.        *)
(***************************************************************************)
Digit == {"0", "1", "2", "3", "4", "5", "6", "7", "8", "9"}

Upper ==
  {"A", "B", "C", "D", "E", "F", "G", "H", "I", "J", "K", "L", "M",
   "N", "O", "P", "Q", "R", "S", "T", "U", "V", "W", "X", "Y", "Z"}

HexLower == Digit \cup {"a", "b", "c", "d", "e", "f"}

Rep(c, n) == [i \in 1..n |-> c]

\* The positions at which `$` matches when the pattern has consumed e
\* characters of s: the end of the string, and just before a final newline.
DollarEnds(s) ==
  {Len(s)} \cup (IF Len(s) > 0 /\ s[Len(s)] = "\n" THEN {Len(s) - 1} ELSE {})

\* re.match(r"^[UW][0-9A-Z]{8,10}$", s)
MatchUserId(s) ==
  \E e \in DollarEnds(s) :
    /\ e \in 9..11
    /\ s[1] \in {"U", "W"}
    /\ \A i \in 2..e : s[i] \in Digit \cup Upper

\* re.match(r"^xoxp-(?:\d{12}-){3}[0-9a-f]{32}$", s)
MatchToken(s) ==
  \E e \in DollarEnds(s) :
    /\ e = 76
    /\ SubSeq(s, 1, 5) = <<"x", "o", "x", "p", "-">>
    /\ \A g \in 0..2 :
         /\ \A i \in 1..12 : s[5 + 13 * g + i] \in Digit
         /\ s[5 + 13 * g + 13] = "-"
    /\ \A i \in 45..76 : s[i] \in HexLower

\* re.match(r"^[CD][0-9A-Z]{8,10}$", s)
MatchChannel(s) ==
  \E e \in DollarEnds(s) :
    /\ e \in 9..11
    /\ s[1] \in {"C", "D"}
    /\ \A i \in 2..e : s[i] \in Digit \cup Upper

\* re.match(r"^\d{16}$", s)
MatchExclusion(s) ==
  \E e \in DollarEnds(s) :
    /\ e = 16
    /\ \A i \in 1..e : s[i] \in Digit

\* x in lst
Contains(lst, x) == \E i \in 1..Len(lst) : lst[i] = x

\* del lst[:n]
DelPrefix(lst, n) == SubSeq(lst, n + 1, Len(lst))

\* s.replace(".", "")
StripDots(s) == SelectSeq(s, LAMBDA c : c # ".")

(***************************************************************************)
(* The command lines of the model.                                         *)
(***************************************************************************)
ScriptName ==
  <<"s", "l", "a", "c", "k", "_", "d", "e", "l", "e", "t", "e", "_",
    "m", "e", "s", "s", "a", "g", "e", "s", ".", "p", "y">>

FlagUserId == <<"-", "-", "u", "s", "e", "r", "-", "i", "d">>
FlagToken == <<"-", "-", "t", "o", "k", "e", "n">>
FlagChannel == <<"-", "-", "c", "h", "a", "n", "n", "e", "l">>
FlagExclude == <<"-", "-", "e", "x", "c", "l", "u", "d", "e">>

Flags == {FlagUserId, FlagToken, FlagChannel, FlagExclude}

UserGood == <<"U", "1", "2", "3", "4", "5", "6", "7", "8">>
UserNewline == <<"U", "1", "2", "3", "4", "5", "6", "7", "8", "\n">>
UserBadPrefix == <<"X", "1", "2", "3", "4", "5", "6", "7", "8">>
UserShort == <<"U", "1", "2", "3", "4", "5", "6", "7">>
UserLower == <<"U", "1", "2", "3", "4", "5", "6", "7", "a">>

TokenGood ==
  <<"x", "o", "x", "p", "-">> \o Rep("1", 12) \o <<"-">> \o Rep("2", 12)
    \o <<"-">> \o Rep("3", 12) \o <<"-">> \o Rep("a", 32)
TokenShort ==
  <<"x", "o", "x", "p", "-">> \o Rep("1", 12) \o <<"-">> \o Rep("2", 12)
    \o <<"-">> \o Rep("3", 12) \o <<"-">> \o Rep("a", 31)

ChannelC == <<"C", "1", "2", "3", "4", "5", "6", "7", "8">>
ChannelD == <<"D", "8", "7", "6", "5", "4", "3", "2", "1">>
ChannelLower == <<"c", "1", "2", "3", "4", "5", "6", "7", "8">>

TsA == <<"1", "5", "9", "8", "1", "2", "0", "4", "0", "0", ".",
         "0", "0", "0", "1", "0", "0">>
TsB == <<"1", "5", "9", "8", "1", "2", "0", "4", "0", "1", ".",
         "0", "0", "0", "2", "0", "0">>
ExclA == <<"1", "5", "9", "8", "1", "2", "0", "4", "0", "0",
           "0", "0", "0", "1", "0", "0">>
ExclB == <<"1", "5", "9", "8", "1", "2", "0", "4", "0", "1",
           "0", "0", "0", "2", "0", "0">>
ExclShort == <<"1", "5", "9", "8", "1", "2", "0", "4", "0", "0",
               "0", "0", "0", "1", "0">>

\* what may stand where "--user-id <w>" is expected (<<>>: the flag is left out)
UserArgs ==
  {<<>>, <<FlagUserId>>, <<FlagUserId, UserGood>>,
   <<FlagUserId, UserBadPrefix>>, <<FlagUserId, UserShort>>,
   <<FlagUserId, UserLower>>, <<FlagUserId, UserGood, UserGood>>}

TokenArgs ==
  {<<>>, <<FlagToken>>, <<FlagToken, TokenGood>>, <<FlagToken, TokenShort>>}

ChannelArgs ==
  {<<>>, <<FlagChannel>>, <<FlagChannel, ChannelC>>, <<FlagChannel, ChannelLower>>}

ExcludeArgs ==
  {<<>>, <<FlagExclude>>, <<FlagExclude, ExclA>>, <<FlagExclude, ExclShort>>,
   <<FlagExclude, ExclA, TsA>>}

\* the flags in the order of the usage line
OrderedArgLists ==
  {u \o t \o c \o x :
     u \in UserArgs, t \in TokenArgs, c \in ChannelArgs, x \in ExcludeArgs}

\* well-formed flag/value pairs in another order, a token after the last
\* flag/value pair that no flag consumes, and a value that ends in a newline
OtherArgLists ==
  {<<FlagToken, TokenGood, FlagUserId, UserGood>>,
   <<FlagUserId, UserGood, FlagChannel, ChannelC, FlagToken, TokenGood>>,
   <<FlagChannel, ChannelC, FlagUserId, UserGood, FlagToken, TokenGood>>,
   <<FlagUserId, UserGood, FlagToken, TokenGood, FlagExclude, ExclA,
     FlagChannel, ChannelC>>,
   <<FlagUserId, UserGood, FlagToken, TokenGood, FlagChannel, ChannelC,
     ChannelD>>,
   <<FlagUserId, UserGood, FlagToken, TokenGood, FlagExclude, ExclB, ExclA>>,
   <<FlagUserId, UserNewline, FlagToken, TokenGood, FlagExclude, ExclB>>}

ArgLists == OrderedArgLists \cup OtherArgLists

(***************************************************************************)
(* The state of main().                                                    *)
(***************************************************************************)
VARIABLES
  pc,          \* the block of main() that runs next
  argv,        \* sys.argv
  user_id, token, channel, exclusions,
  headers, params,
  messages,    \* the records to delete
  idx,         \* the position of `for message in messages` (1-based)
  count,       \* the successful deletions
  exitCode,    \* the argument of sys.exit, NotExited while main() runs
  stdout, stderr,
  argv0,       \* history: the command line main() was started with
  searchLog,   \* history: the search.messages requests and their answers
  deleteLog    \* history: the chat.delete requests (with the position of
               \* the record they are for) and their answers

vars ==
  <<pc, argv, user_id, token, channel, exclusions, headers, params, messages,
    idx, count, exitCode, stdout, stderr, argv0, searchLog, deleteLog>>

\* the locals of the validator
argVars == <<user_id, token, channel, exclusions>>
\* the locals of the collector and of the deleter
netVars == <<headers, params, messages, idx, count, searchLog, deleteLog>>

None == <<>>
NotExited == -1

\* print(text) with n the number formatted into it (0 when there is none)
Line(text, n) == <<[text |-> text, n |-> n]>>

\* print(msg, file=sys.stderr); sys.exit(1)
Die(msg, n) ==
  /\ stderr' = stderr \o Line(msg, n)
  /\ exitCode' = 1
  /\ pc' = "exited"

Init ==
  /\ argv0 \in {<<ScriptName>> \o a : a \in ArgLists}
  /\ argv = argv0
  /\ pc = "start"
  /\ user_id = None /\ token = None /\ channel = None /\ exclusions = <<>>
  /\ headers = [content_type |-> "", authorization |-> None]
  /\ params = [token |-> None, query |-> None, sort |-> "", count |-> 0, page |-> 0]
  /\ messages = <<>> /\ idx = 0 /\ count = 0
  /\ exitCode = NotExited
  /\ stdout = <<>> /\ stderr = <<>>
  /\ searchLog = <<>> /\ deleteLog = <<>>

(***************************************************************************)
(* The argument validator.                                                 *)
(***************************************************************************)
\* del sys.argv[0]
Start ==
  /\ pc = "start"
  /\ argv' = Tail(argv)
  /\ pc' = "user_id"
  /\ UNCHANGED <<argVars, netVars, exitCode, stdout, stderr, argv0>>

\* the try block of a single-valued flag passes: the flag is the first
\* argument, a second argument exists and matches the pattern
UserIdOk(a) == a[1] = FlagUserId /\ Len(a) >= 2 /\ MatchUserId(a[2])
\* TokenOk without the assertion that --token is the first argument left
TokenOkAnywhere(a) ==
  \E i \in 1..(Len(a) - 1) : a[i] = FlagToken /\ MatchToken(a[i + 1])
TokenOk(a) == a[1] = FlagToken /\ Len(a) >= 2 /\ MatchToken(a[2])
ChannelOk(a) == a[1] = FlagChannel /\ Len(a) >= 2 /\ MatchChannel(a[2])
\* the try block of --exclude passes
ExcludeOk(a) ==
  /\ a[1] = FlagExclude
  /\ Len(Tail(a)) > 0
  /\ \A i \in 2..Len(a) : MatchExclusion(a[i])

ParseUserId ==
  /\ pc = "user_id"
  /\ IF Contains(argv, FlagUserId)
     THEN IF UserIdOk(argv)
          THEN /\ user_id' = argv[2]
               /\ argv' = DelPrefix(argv, 2)
               /\ pc' = "token"
               /\ UNCHANGED <<exitCode, stderr>>
          ELSE /\ Die("Error. The user ID argument was malformed.", 0)
               /\ UNCHANGED <<user_id, argv>>
     ELSE /\ Die("Error. The user ID argument wasn't specified.", 0)
          /\ UNCHANGED <<user_id, argv>>
  /\ UNCHANGED <<token, channel, exclusions, netVars, stdout, argv0>>

ParseToken ==
  /\ pc = "token"
  /\ IF Contains(argv, FlagToken)
     THEN IF TokenOk(argv)
          THEN /\ token' = argv[2]
               /\ argv' = DelPrefix(argv, 2)
               /\ pc' = "channel"
               /\ UNCHANGED <<exitCode, stderr>>
          ELSE /\ Die("Error. The token argument was malformed.", 0)
               /\ UNCHANGED <<token, argv>>
     ELSE /\ Die("Error. The token argument wasn't specified.", 0)
          /\ UNCHANGED <<token, argv>>
  /\ UNCHANGED <<user_id, channel, exclusions, netVars, stdout, argv0>>

ParseChannel ==
  /\ pc = "channel"
  /\ IF Contains(argv, FlagChannel)
     THEN IF ChannelOk(argv)
          THEN /\ channel' = argv[2]
               /\ argv' = DelPrefix(argv, 2)
               /\ pc' = "exclude"
               /\ UNCHANGED <<exitCode, stderr>>
          ELSE /\ Die("Error. The channel argument was malformed.", 0)
               /\ UNCHANGED <<channel, argv>>
     ELSE /\ channel' = None
          /\ pc' = "exclude"
          /\ UNCHANGED <<argv, exitCode, stderr>>
  /\ UNCHANGED <<user_id, token, exclusions, netVars, stdout, argv0>>

\* the --exclude block, then the initial headers, params and messages
ParseExclude ==
  /\ pc = "exclude"
  /\ IF Contains(argv, FlagExclude) /\ ~ExcludeOk(argv)
     THEN /\ Die("Error. The exclude argument was malformed.", 0)
          /\ UNCHANGED <<exclusions, argv, headers, params, messages>>
     ELSE /\ IF Contains(argv, FlagExclude)
             THEN exclusions' = Tail(argv) /\ argv' = <<>>
             ELSE exclusions' = <<>> /\ UNCHANGED argv
          /\ headers' = [content_type |-> "application/x-www-form-urlencoded",
                         authorization |-> None]
          /\ params' = [token |-> token,
                        query |-> <<"f", "r", "o", "m", ":", "<", "@">>
                                     \o user_id \o <<">">>,
                        sort |-> "timestamp", count |-> 100, page |-> 1]
          /\ messages' = <<>>
          /\ pc' = "collect"
          /\ UNCHANGED <<exitCode, stderr>>
  /\ UNCHANGED <<user_id, token, channel, idx, count, searchLog, deleteLog,
                 stdout, argv0>>

(***************************************************************************)
(* The Slack Web API, a black box: the answers it may give.                *)
(***************************************************************************)
Match(c, ts) == [channel |-> [id |-> c], ts |-> ts]

\* the "matches" arrays of the model: a match of another channel before one
\* of the filtered channel, two matches of one channel, one match twice
Pages ==
  {<<Match(ChannelD, TsA), Match(ChannelC, TsB)>>,
   <<Match(ChannelC, TsB), Match(ChannelC, TsA)>>,
   <<Match(ChannelC, TsA), Match(ChannelC, TsA)>>}

PageCounts == 1..MaxPageCount

\* kind "http": a response arrived; "conn_error": requests raised
\* ConnectionError or Timeout; "bad_body": status 200 with a body that is not
\* the JSON object main() indexes, so response.json() or a subscript raises
Answer(kind, status, ok, total, matches, page_count) ==
  [kind |-> kind, status |-> status, ok |-> ok, total |-> total,
   matches |-> matches, page_count |-> page_count]

SearchResponses ==
  {Answer("conn_error", 0, FALSE, 0, <<>>, 0),
   Answer("bad_body", 200, FALSE, 0, <<>>, 0),
   Answer("http", 429, FALSE, 0, <<>>, 0),
   Answer("http", 500, FALSE, 0, <<>>, 0),
   Answer("http", 200, FALSE, 0, <<>>, 0),
   Answer("http", 200, TRUE, 0, <<>>, 0)}
  \cup {Answer("http", 200, TRUE, Len(m) + 1, m, n) : m \in Pages, n \in PageCounts}

DeleteResponses ==
  {[kind |-> "conn_error", status |-> 0, ok |-> FALSE],
   [kind |-> "bad_body", status |-> 200, ok |-> FALSE],
   [kind |-> "http", status |-> 429, ok |-> FALSE],
   [kind |-> "http", status |-> 500, ok |-> FALSE],
   [kind |-> "http", status |-> 200, ok |-> FALSE],
   [kind |-> "http", status |-> 200, ok |-> TRUE]}

ConnectMsg ==
  "Error. Unable to connect to the Slack servers. Ensure that your network connection has internet connectivity and try again."

(***************************************************************************)
(* The message collector.                                                  *)
(***************************************************************************)
\* KeepMatch with the timestamp compared as received, the "." still in it
KeepMatchUnstripped(chan, excl, m) ==
  /\ chan = None \/ chan = m.channel.id
  /\ ~Contains(excl, m.ts)

\* the condition of the if statement inside `for match in matches`
KeepMatch(chan, excl, m) ==
  /\ chan = None \/ chan = m.channel.id
  /\ ~Contains(excl, StripDots(m.ts))

\* Collected with each kept record put in front of the later ones of its page
RECURSIVE CollectedFront(_, _, _)
CollectedFront(chan, excl, matches) ==
  IF matches = <<>> THEN <<>>
  ELSE CollectedFront(chan, excl, Tail(matches))
       \o (IF KeepMatch(chan, excl, Head(matches))
           THEN <<[channel |-> Head(matches).channel.id, ts |-> Head(matches).ts]>>
           ELSE <<>>)

\* the records `for match in matches` appends, in order
RECURSIVE Collected(_, _, _)
Collected(chan, excl, matches) ==
  IF matches = <<>> THEN <<>>
  ELSE (IF KeepMatch(chan, excl, Head(matches))
        THEN <<[channel |-> Head(matches).channel.id, ts |-> Head(matches).ts]>>
        ELSE <<>>)
       \o Collected(chan, excl, Tail(matches))

\* IsLastPage with the loop left after the first page whatever page_count is
IsLastPageAlways(page, page_count) == TRUE

\* IsLastPage as a test of "no page is left": the page is at or past the
\* reported count
IsLastPageAtLeast(page, page_count) == page >= page_count

\* params["page"] == response_body["messages"]["pagination"]["page_count"]
IsLastPage(page, page_count) == page = page_count

\* NextPage with a step of two
NextPageSkip(page) == page + 2

\* params["page"] += 1
NextPage(page) == page + 1

\* `break` out of the search loop, then the statements up to the for loop
EnterDeleter ==
  /\ headers' = [content_type |-> "application/json; charset=UTF-8",
                 authorization |-> <<"B", "e", "a", "r", "e", "r", " ">> \o token]
  /\ count' = 0
  /\ idx' = 1
  /\ pc' = "delete"

\* SearchOutcome without the test of response_body["ok"]: an answer that is
\* not ok carries no messages and is taken for an empty result
SearchOutcomeNoOkTest(r) ==
  CASE r.kind = "conn_error" -> "conn_error"
    [] r.kind = "bad_body" -> "uncaught"
    [] r.kind = "http" /\ r.status # 200 -> "bad_status"
    [] r.kind = "http" /\ r.status = 200 /\ (~r.ok \/ r.total = 0) -> "no_messages"
    [] r.kind = "http" /\ r.status = 200 /\ r.ok /\ r.total # 0 -> "page"

\* the branch of the try/if/else chain around requests.get an answer takes
SearchOutcome(r) ==
  CASE r.kind = "conn_error" -> "conn_error"
    [] r.kind = "bad_body" -> "uncaught"
    [] r.kind = "http" /\ r.status # 200 -> "bad_status"
    [] r.kind = "http" /\ r.status = 200 /\ ~r.ok -> "not_ok"
    [] r.kind = "http" /\ r.status = 200 /\ r.ok /\ r.total = 0 -> "no_messages"
    [] r.kind = "http" /\ r.status = 200 /\ r.ok /\ r.total # 0 -> "page"

\* one iteration of the `while True` loop around requests.get
Search(r) ==
  /\ pc = "collect"
  /\ params.page <= MaxPage
  /\ searchLog' = Append(searchLog,
       [url |-> "https://slack.com/api/search.messages", headers |-> headers,
        params |-> params, resp |-> r])
  /\ CASE SearchOutcome(r) = "conn_error" ->
            /\ Die(ConnectMsg, 0)
            /\ UNCHANGED <<headers, params, messages, idx, count, stdout>>
       [] SearchOutcome(r) = "uncaught" ->
            /\ Die("Traceback (most recent call last):", 0)
            /\ UNCHANGED <<headers, params, messages, idx, count, stdout>>
       [] SearchOutcome(r) = "bad_status" ->
            /\ Die("Error. The request was unsuccessful. Status code: {}.", r.status)
            /\ UNCHANGED <<headers, params, messages, idx, count, stdout>>
       [] SearchOutcome(r) = "not_ok" ->
            /\ Die("Error. The request was unsuccessful. Message: {}.", 0)
            /\ UNCHANGED <<headers, params, messages, idx, count, stdout>>
       [] SearchOutcome(r) = "no_messages" ->
            /\ stdout' = stdout \o Line("There are no messages to process.", 0)
            /\ EnterDeleter
            /\ UNCHANGED <<params, messages, exitCode, stderr>>
       [] SearchOutcome(r) = "page" ->
            /\ messages' = messages \o Collected(channel, exclusions, r.matches)
            /\ IF IsLastPage(params.page, r.page_count)
               THEN /\ stdout' = stdout \o Line("Processed {} messages.", Len(messages'))
                    /\ EnterDeleter
                    /\ UNCHANGED params
               ELSE /\ params' = [params EXCEPT !.page = NextPage(params.page)]
                    /\ UNCHANGED <<headers, idx, count, stdout, pc>>
            /\ UNCHANGED <<exitCode, stderr>>
  /\ UNCHANGED <<argv, argVars, deleteLog, argv0>>

(***************************************************************************)
(* The message deleter.                                                    *)
(***************************************************************************)
\* the HTTP 429 answers received so far
RateLimits == Cardinality({i \in 1..Len(deleteLog) : deleteLog[i].resp.status = 429})

\* AfterSuccess with the following record skipped
AfterSuccessSkip(i) == i + 2

\* the for loop's position after the inner `while True` loop ends with `break`
AfterSuccess(i) == i + 1

\* AfterRateLimit with `break` after the sleep: the record is given up
AfterRateLimitSkip(i) == i + 1

\* the for loop's position after time.sleep(15)
AfterRateLimit(i) == i

\* CountAfterSuccess with the increment done twice
CountAfterSuccessTwice(c) == c + 2

\* count += 1
CountAfterSuccess(c) == c + 1

\* IsProgress with the test made on the counter before its increment
IsProgressBeforeIncrement(c) == (c - 1) % 10 = 0

\* if not count % 10
IsProgress(c) == c % 10 = 0

\* DeleteOutcome with every status other than 200 slept on and retried
DeleteOutcomeRetryAll(r) ==
  CASE r.kind = "conn_error" -> "conn_error"
    [] r.kind = "bad_body" -> "uncaught"
    [] r.kind = "http" /\ r.status = 200 /\ r.ok -> "deleted"
    [] r.kind = "http" /\ r.status = 200 /\ ~r.ok -> "not_ok"
    [] r.kind = "http" /\ r.status # 200 -> "rate_limited"

\* the branch of the try/if/elif/else chain around requests.post an answer takes
DeleteOutcome(r) ==
  CASE r.kind = "conn_error" -> "conn_error"
    [] r.kind = "bad_body" -> "uncaught"
    [] r.kind = "http" /\ r.status = 200 /\ r.ok -> "deleted"
    [] r.kind = "http" /\ r.status = 200 /\ ~r.ok -> "not_ok"
    [] r.kind = "http" /\ r.status = 429 -> "rate_limited"
    [] r.kind = "http" /\ r.status \notin {200, 429} -> "bad_status"

\* one iteration of the `while True` loop around requests.post
Delete(r) ==
  /\ pc = "delete"
  /\ idx <= Len(messages)
  /\ r.status = 429 => RateLimits < MaxRateLimits
  /\ deleteLog' = Append(deleteLog,
       [url |-> "https://slack.com/api/chat.delete", headers |-> headers,
        data |-> [channel |-> messages[idx].channel, ts |-> messages[idx].ts,
                  as_user |-> TRUE],
        record |-> idx, resp |-> r])
  /\ CASE DeleteOutcome(r) = "conn_error" ->
            /\ Die(ConnectMsg, 0)
            /\ UNCHANGED <<idx, count, stdout>>
       [] DeleteOutcome(r) = "uncaught" ->
            /\ Die("Traceback (most recent call last):", 0)
            /\ UNCHANGED <<idx, count, stdout>>
       [] DeleteOutcome(r) = "deleted" ->
            /\ count' = CountAfterSuccess(count)
            /\ stdout' = IF IsProgress(count')
                         THEN stdout \o Line("Deleted {} messages.", count')
                         ELSE stdout
            /\ idx' = AfterSuccess(idx)
            /\ UNCHANGED <<pc, exitCode, stderr>>
       [] DeleteOutcome(r) = "not_ok" ->
            /\ Die("Error. The delete request was unsuccessful. Message: {}.", 0)
            /\ UNCHANGED <<idx, count, stdout>>
       [] DeleteOutcome(r) = "rate_limited" ->
            /\ stderr' = stderr \o Line("Error. Rate limit exceeded. Sleeping and trying again.", 0)
            /\ idx' = AfterRateLimit(idx)
            /\ UNCHANGED <<pc, exitCode, count, stdout>>
       [] DeleteOutcome(r) = "bad_status" ->
            /\ Die("Error. The delete request was unsuccessful. Status code: {}.", r.status)
            /\ UNCHANGED <<idx, count, stdout>>
  /\ UNCHANGED <<argv, argVars, headers, params, messages, searchLog, argv0>>

\* the for loop is exhausted: print the total, sys.exit(0)
Finish ==
  /\ pc = "delete"
  /\ idx > Len(messages)
  /\ stdout' = stdout \o Line("Successfully deleted {} messages.", count)
  /\ exitCode' = 0
  /\ pc' = "exited"
  /\ UNCHANGED <<argv, argVars, headers, params, messages, idx, count, stderr,
                 argv0, searchLog, deleteLog>>

SearchStep == \E r \in SearchResponses : Search(r)
DeleteStep == \E r \in DeleteResponses : Delete(r)

Next ==
  \/ Start
  \/ ParseUserId
  \/ ParseToken
  \/ ParseChannel
  \/ ParseExclude
  \/ SearchStep
  \/ DeleteStep
  \/ Finish

Spec == Init /\ [][Next]_vars

(***************************************************************************)
(* Vocabulary of the properties.                                           *)
(***************************************************************************)
Last(q) == q[Len(q)]

\* the elements of a list
Elems(q) == {q[i] : i \in 1..Len(q)}

\* the record main() makes of a match
RecordOf(m) == [channel |-> m.channel.id, ts |-> m.ts]

\* a search answer that delivers a page of matches
IsPageAnswer(r) == r.kind = "http" /\ r.status = 200 /\ r.ok /\ r.total # 0

\* a search answer that reports no match at all
IsZeroTotal(r) == r.kind = "http" /\ r.status = 200 /\ r.ok /\ r.total = 0

\* match m passes the channel filter and the exclusion list of the run
Passes(m) ==
  /\ channel = None \/ m.channel.id = channel
  /\ StripDots(m.ts) \notin Elems(exclusions)

\* the matches of all pages received so far, in the order received
RECURSIVE AllMatches(_)
AllMatches(log) ==
  IF log = <<>> THEN <<>>
  ELSE AllMatches(SubSeq(log, 1, Len(log) - 1))
       \o (IF IsPageAnswer(Last(log).resp) THEN Last(log).resp.matches ELSE <<>>)

\* the records of the matches of q that pass, in the order of q
RECURSIVE PassingRecords(_)
PassingRecords(q) ==
  IF q = <<>> THEN <<>>
  ELSE (IF Passes(q[1]) THEN <<RecordOf(q[1])>> ELSE <<>>) \o PassingRecords(Tail(q))

\* the records of all the matches of q
AllRecords(q) == [i \in 1..Len(q) |-> RecordOf(q[i])]

\* the collector stopped because the page just requested was the last one
CollectorCompleted ==
  /\ searchLog # <<>>
  /\ IsPageAnswer(Last(searchLog).resp)
  /\ Last(searchLog).params.page = Last(searchLog).resp.page_count

\* C1: every record of the deletion list is the record of a received match
\* that passes the channel filter (unset, or equal to the match's channel)
\* and whose timestamp without the "." is not an exclusion; the match with
\* ts 1598120400.000100 is never listed when 1598120400000100 is excluded,
\* and with --channel C12345678 only records of that channel are listed.
C1_OnlyPassingMatchesListed ==
  /\ \A i \in 1..Len(messages) :
       \E m \in Elems(AllMatches(searchLog)) :
         /\ messages[i] = RecordOf(m)
         /\ channel = None \/ m.channel.id = channel
         /\ \A x \in Elems(exclusions) : x # StripDots(m.ts)
  /\ ExclA \in Elems(exclusions) => \A i \in 1..Len(messages) : messages[i].ts # TsA
  /\ channel = ChannelC => \A i \in 1..Len(messages) : messages[i].channel = ChannelC

\* a run with a channel filter and an exclusion has listed a record, after
\* receiving a match of another channel and a match with the excluded timestamp
C1_Witness ==
  /\ channel = ChannelC
  /\ ExclA \in Elems(exclusions)
  /\ messages # <<>>
  /\ \E m \in Elems(AllMatches(searchLog)) : m.channel.id # ChannelC
  /\ \E m \in Elems(AllMatches(searchLog)) : m.channel.id = ChannelC /\ m.ts = TsA

\* C2: when the collector has stopped on the last page, the deletion list is
\* the list of the passing matches of all received pages, in page order and
\* in the order within each page; without channel filter and exclusions it is
\* the list of all received matches.
C2_ListIsPassingMatchesInOrder ==
  CollectorCompleted =>
    /\ messages = PassingRecords(AllMatches(searchLog))
    /\ (channel = None /\ exclusions = <<>>) =>
         messages = AllRecords(AllMatches(searchLog))

\* the collector stopped on page 2 having dropped one of four matches and
\* kept records of both pages, not all the same
C2_Witness ==
  /\ CollectorCompleted
  /\ Len(searchLog) = 2
  /\ Len(AllMatches(searchLog)) = 4
  /\ Len(messages) = 3
  /\ \E i, j \in 1..Len(messages) : messages[i] # messages[j]

\* a delete answer that confirms the deletion
IsDeleted(r) == r.kind = "http" /\ r.status = 200 /\ r.ok

\* a delete answer that signals rate limiting
IsRateLimited(r) == r.kind = "http" /\ r.status = 429

\* the confirmed deletions among the first n delete requests
Oks(n) == Cardinality({j \in 1..n : IsDeleted(deleteLog[j].resp)})

\* the body chat.delete is sent for the record at position i
DataOf(i) == [channel |-> messages[i].channel, ts |-> messages[i].ts, as_user |-> TRUE]

\* C3: if the delete call for a record is answered 429 k times and then
\* 200/ok:true, exactly the k+1 requests of that stretch are for this record,
\* all with its channel and ts, and the counter grows by exactly 1 over them;
\* a 429 answer leaves the counter and the current record as they were.
C3_RetrySameRecordCountOnce ==
  /\ \A a \in 1..Len(deleteLog) : \A b \in a..Len(deleteLog) :
       ( /\ a = 1 \/ ~IsRateLimited(deleteLog[a - 1].resp)
         /\ \A j \in a..(b - 1) : IsRateLimited(deleteLog[j].resp)
         /\ IsDeleted(deleteLog[b].resp) )
       => /\ \A j \in a..b : /\ deleteLog[j].record = deleteLog[b].record
                             /\ deleteLog[j].data = DataOf(deleteLog[b].record)
          /\ \A j \in 1..Len(deleteLog) :
               deleteLog[j].record = deleteLog[b].record => j \in a..b
          /\ Oks(b) = Oks(a - 1) + 1
  /\ count = Oks(Len(deleteLog))
  /\ (deleteLog # <<>> /\ IsRateLimited(Last(deleteLog).resp)) =>
       /\ pc = "delete"
       /\ idx = Last(deleteLog).record
       /\ count = Oks(Len(deleteLog) - 1)

\* the second record was deleted after two 429 answers
C3_Witness ==
  /\ Len(deleteLog) >= 4
  /\ IsRateLimited(deleteLog[Len(deleteLog) - 2].resp)
  /\ IsRateLimited(deleteLog[Len(deleteLog) - 1].resp)
  /\ IsDeleted(Last(deleteLog).resp)
  /\ Last(deleteLog).record = 2
  /\ count = 2

\* C4: if every search answer so far is 200/ok:true with a non-zero total and
\* the same page_count N >= 1, the requests so far are for pages 1, 2, ... in
\* that order, each with count 100, at most N of them; the collector is still
\* collecting, about to request the next page, while fewer than N were
\* issued, and has stopped once page N was requested.
C4_PagesOneToN ==
  \A N \in PageCounts :
    ( /\ pc = "collect" \/ searchLog # <<>>
      /\ \A j \in 1..Len(searchLog) :
           IsPageAnswer(searchLog[j].resp) /\ searchLog[j].resp.page_count = N )
    => /\ Len(searchLog) <= N
       /\ \A j \in 1..Len(searchLog) :
            searchLog[j].params.page = j /\ searchLog[j].params.count = 100
       /\ Len(searchLog) < N => pc = "collect" /\ params.page = Len(searchLog) + 1
       /\ Len(searchLog) = N => pc # "collect"

\* two pages were requested, both answered with page_count 2, and the
\* collector has stopped
C4_Witness ==
  /\ Len(searchLog) = 2
  /\ \A j \in 1..2 : IsPageAnswer(searchLog[j].resp) /\ searchLog[j].resp.page_count = 2
  /\ pc = "delete"

\* every record of the deletion list has a confirmed delete request
AllDeleted ==
  \A i \in 1..Len(messages) :
    \E j \in 1..Len(deleteLog) :
      /\ deleteLog[j].record = i
      /\ deleteLog[j].data = DataOf(i)
      /\ IsDeleted(deleteLog[j].resp)

\* the run ended on a validation failure or on a fatal answer
EndedOnFailure ==
  /\ pc = "exited"
  /\ \/ searchLog = <<>>
     \/ ~(IsPageAnswer(Last(searchLog).resp) \/ IsZeroTotal(Last(searchLog).resp))
     \/ deleteLog # <<>> /\ ~IsDeleted(Last(deleteLog).resp)

\* C5: the exit code is 0 only when every record of the deletion list has a
\* 200/ok:true delete answer, and then the reported count is the length of
\* the list; every other termination has exit code 1.
C5_ExitCodes ==
  /\ exitCode # NotExited <=> pc = "exited"
  /\ exitCode = 0 =>
       /\ AllDeleted
       /\ count = Len(messages)
       /\ Last(stdout) = [text |-> "Successfully deleted {} messages.", n |-> Len(messages)]
  /\ pc = "exited" => exitCode \in {0, 1}
  /\ EndedOnFailure => exitCode = 1
  /\ (pc = "exited" /\ ~EndedOnFailure) => exitCode = 0

\* exit code 0 after three records were deleted, one of them at the second try
C5_Witness ==
  /\ exitCode = 0
  /\ Len(messages) = 3
  /\ Len(deleteLog) = 4

\* a delete answer C6 calls fatal
IsFatalDelete(r) ==
  \/ r.kind = "conn_error"
  \/ r.kind = "http" /\ r.status = 200 /\ ~r.ok
  \/ r.kind = "http" /\ r.status \notin {200, 429}

\* C6: a delete answer for record i that is 200/ok:false, a status other than
\* 200 and 429, or a connection failure ends the run with exit code 1, the
\* counter not incremented for record i, and is the last delete request: no
\* retry of record i and no request for a later record.
C6_DeleteFailureIsFatal ==
  \A j \in 1..Len(deleteLog) :
    IsFatalDelete(deleteLog[j].resp) =>
      /\ j = Len(deleteLog)
      /\ pc = "exited"
      /\ exitCode = 1
      /\ count = deleteLog[j].record - 1
      /\ count = Oks(Len(deleteLog))

\* the second of three records got a fatal answer after a success and a 429
C6_Witness ==
  /\ Len(messages) = 3
  /\ Len(deleteLog) = 3
  /\ IsDeleted(deleteLog[1].resp)
  /\ IsRateLimited(deleteLog[2].resp)
  /\ IsFatalDelete(deleteLog[3].resp)
  /\ deleteLog[3].record = 2

\* a search answer C7 calls fatal
IsFatalSearch(r) ==
  \/ r.kind = "conn_error"
  \/ r.kind = "http" /\ r.status # 200
  \/ r.kind = "http" /\ r.status = 200 /\ ~r.ok

\* C7: a search answer that is not HTTP 200 (429 included), is 200/ok:false,
\* or a connection failure, on any page, ends the run with exit code 1; it is
\* the last search request (no retry, no later page) and no delete request is
\* issued, also when earlier pages gave records.
C7_SearchFailureIsFatal ==
  \A j \in 1..Len(searchLog) :
    IsFatalSearch(searchLog[j].resp) =>
      /\ j = Len(searchLog)
      /\ pc = "exited"
      /\ exitCode = 1
      /\ deleteLog = <<>>

\* page 2 was answered 429 after page 1 gave records: nothing is deleted
C7_Witness ==
  /\ Len(searchLog) = 2
  /\ Last(searchLog).resp.status = 429
  /\ messages # <<>>
  /\ pc = "exited"

\* C8: when the collector stops on a 200/ok:true answer with zero total, on
\* whichever page, the result is empty, no delete request is issued and the
\* exit code is 0.
C8_ZeroTotalDeletesNothing ==
  (searchLog # <<>> /\ IsZeroTotal(Last(searchLog).resp)) =>
    /\ messages = <<>>
    /\ deleteLog = <<>>
    /\ pc = "exited" => exitCode = 0

\* the collector has stopped: last page reached or zero total
CollectorStopped ==
  /\ searchLog # <<>>
  /\ CollectorCompleted \/ IsZeroTotal(Last(searchLog).resp)

\* C9: validate, collect, delete run in this order with no step back: a
\* search request is issued only after validation, whose results then stay; a
\* delete request is issued only after the collector has stopped; once a
\* delete request was issued no search request is issued.
C9_PhasesInOrder ==
  /\ [](searchLog # <<>> =>
          /\ pc \in {"collect", "delete", "exited"}
          /\ MatchUserId(user_id) /\ MatchToken(token))
  /\ [](deleteLog # <<>> => CollectorStopped /\ pc \in {"delete", "exited"})
  /\ [][searchLog # <<>> => UNCHANGED <<argv, user_id, token, channel, exclusions>>]_vars
  /\ [][deleteLog # <<>> => searchLog' = searchLog]_vars
  /\ [][deleteLog' # deleteLog => searchLog' = searchLog]_vars

\* a delete request was issued after two search requests
C9_Witness ==
  /\ Len(searchLog) = 2
  /\ Len(deleteLog) >= 2

\* the value of flag f matches its pattern from its first to its last character
WellFormed(f, s) ==
  CASE f = FlagUserId ->
         /\ Len(s) \in 9..11
         /\ s[1] \in {"U", "W"}
         /\ \A i \in 2..Len(s) : s[i] \in Digit \cup Upper
    [] f = FlagToken ->
         /\ Len(s) = 76
         /\ SubSeq(s, 1, 5) = <<"x", "o", "x", "p", "-">>
         /\ \A i \in {6, 19, 32} : \A k \in i..(i + 11) : s[k] \in Digit
         /\ s[18] = "-" /\ s[31] = "-" /\ s[44] = "-"
         /\ \A i \in 45..76 : s[i] \in HexLower
    [] f = FlagChannel ->
         /\ Len(s) \in 9..11
         /\ s[1] \in {"C", "D"}
         /\ \A i \in 2..Len(s) : s[i] \in Digit \cup Upper
    [] f = FlagExclude ->
         /\ Len(s) = 16
         /\ \A i \in 1..16 : s[i] \in Digit

\* the position of the first f in the argument list a
FirstIndex(a, f) == CHOOSE i \in 1..Len(a) : a[i] = f /\ \A k \in 1..(i - 1) : a[k] # f

\* the command line a (without the script name) has an argument error: a
\* required flag is missing, or a flag is not followed by a value, or the
\* value after it (for --exclude: any value after it) does not match
ArgumentError(a) ==
  \/ ~Contains(a, FlagUserId)
  \/ ~Contains(a, FlagToken)
  \/ \E f \in {FlagUserId, FlagToken, FlagChannel} :
       /\ Contains(a, f)
       /\ \/ FirstIndex(a, f) = Len(a)
          \/ ~WellFormed(f, a[FirstIndex(a, f) + 1])
  \/ /\ Contains(a, FlagExclude)
     /\ \/ FirstIndex(a, FlagExclude) = Len(a)
        \/ \E k \in (FirstIndex(a, FlagExclude) + 1)..Len(a) : ~WellFormed(FlagExclude, a[k])

\* C10: a command line with an argument error makes the program exit with
\* code 1 before any search or delete request: no request is ever issued and
\* the collector is never entered.
C10_ArgumentErrorsExitBeforeRequests ==
  ArgumentError(Tail(argv0)) =>
    /\ searchLog = <<>>
    /\ deleteLog = <<>>
    /\ pc \notin {"collect", "delete"}
    /\ pc = "exited" => exitCode = 1

(***************************************************************************)
(* Properties of the argument validator.                                   *)
(***************************************************************************)
\* the command line without the script name
Args == Tail(argv0)

\* the part of a before the first --exclude
BeforeExclude(a) ==
  IF Contains(a, FlagExclude) THEN SubSeq(a, 1, FirstIndex(a, FlagExclude) - 1) ELSE a

\* the value that follows the first f in a
ValueOf(a, f) == a[FirstIndex(a, f) + 1]

\* a consists of --user-id, --token and at most one --channel, once each in
\* some order, each followed by one value that matches its pattern, and then
\* possibly --exclude with one or more 16-digit values
IsPairList(a) ==
  LET body == BeforeExclude(a) IN
    /\ Len(body) \in {4, 6}
    /\ \A k \in 1..(Len(body) \div 2) :
         /\ body[2 * k - 1] \in {FlagUserId, FlagToken, FlagChannel}
         /\ WellFormed(body[2 * k - 1], body[2 * k])
         /\ \A l \in 1..(Len(body) \div 2) : l # k => body[2 * l - 1] # body[2 * k - 1]
    /\ \E k \in 1..(Len(body) \div 2) : body[2 * k - 1] = FlagUserId
    /\ \E k \in 1..(Len(body) \div 2) : body[2 * k - 1] = FlagToken
    /\ Contains(a, FlagExclude) =>
         /\ Len(body) + 1 < Len(a)
         /\ \A k \in (Len(body) + 2)..Len(a) : WellFormed(FlagExclude, a[k])

\* the pairs of a stand in the order --user-id, --token, --channel
InUsageOrder(a) == a[1] = FlagUserId /\ a[3] = FlagToken

\* the run ended in the validator
RejectedByValidator == pc = "exited" /\ searchLog = <<>>

\* the validator has accepted the command line
Validated == pc \in {"collect", "delete"} \/ searchLog # <<>>

\* C11 as claimed: a command line of well-formed flag/value pairs is accepted
\* whatever the order of the pairs.
C11_AnyOrderAccepted ==
  IsPairList(Args) => ~RejectedByValidator

\* C11 as amended: a command line of well-formed flag/value pairs in the
\* order --user-id, --token, --channel is never rejected and yields the
\* values that follow the flags; in any other order it is rejected with exit
\* code 1 at the --user-id or the --token block.
C11_UsageOrderRequired ==
  IsPairList(Args) =>
    /\ InUsageOrder(Args) =>
         /\ ~RejectedByValidator
         /\ Validated =>
              /\ user_id = ValueOf(Args, FlagUserId)
              /\ token = ValueOf(Args, FlagToken)
              /\ channel = IF Contains(Args, FlagChannel)
                           THEN ValueOf(Args, FlagChannel) ELSE None
    /\ ~InUsageOrder(Args) =>
         /\ pc \in {"start", "user_id", "token", "exited"}
         /\ searchLog = <<>> /\ deleteLog = <<>>
         /\ pc = "exited" => exitCode = 1

\* --user-id, --channel, --token, each with a well-formed value, was rejected
C11_Witness ==
  /\ IsPairList(Args)
  /\ Len(Args) = 6
  /\ Args[1] = FlagUserId /\ Args[3] = FlagChannel
  /\ RejectedByValidator
  /\ exitCode = 1

\* the number of tokens that follow position i of a before the next flag
RECURSIVE ValuesAfter(_, _)
ValuesAfter(a, i) ==
  IF i + 1 > Len(a) \/ a[i + 1] \in Flags THEN 0 ELSE 1 + ValuesAfter(a, i + 1)

\* a single-valued flag of a is followed by no value or by more than one, or
\* a starts with a token that belongs to no flag
WrongArity(a) ==
  \/ \E i \in 1..Len(a) :
       a[i] \in {FlagUserId, FlagToken, FlagChannel} /\ ValuesAfter(a, i) # 1
  \/ a # <<>> /\ a[1] \notin Flags

\* C12: a command line with a wrong arity makes the validator end the run
\* with exit code 1, and no request is issued.
C12_WrongArityRejected ==
  WrongArity(Args) =>
    /\ searchLog = <<>> /\ deleteLog = <<>>
    /\ pc \notin {"collect", "delete"}
    /\ pc = "exited" => exitCode = 1

(***************************************************************************)
(* Properties of the order of the deletions.                               *)
(***************************************************************************)
\* the delete requests that were confirmed, in the order they were sent
Confirmed == SelectSeq(deleteLog, LAMBDA e : IsDeleted(e.resp))

\* C13: deletions go one record at a time in the collected order: a request
\* for record i+1 is sent only after record i was confirmed with 200/ok:true,
\* every request carries the bearer token, and in every state, a fatal exit
\* included, the confirmed deletions are exactly the first `count` records of
\* the deletion list, in order.
C13_DeletedIsPrefixOfList ==
  /\ count <= Len(messages)
  /\ Len(Confirmed) = count
  /\ \A i \in 1..Len(Confirmed) :
       Confirmed[i].record = i /\ Confirmed[i].data = DataOf(i)
  /\ \A j \in 1..Len(deleteLog) :
       /\ deleteLog[j].headers.authorization = <<"B", "e", "a", "r", "e", "r", " ">> \o token
       /\ deleteLog[j].record > 1 =>
            \E k \in 1..(j - 1) :
              /\ deleteLog[k].record = deleteLog[j].record - 1
              /\ IsDeleted(deleteLog[k].resp)

\* a run ended on a fatal answer for the third record, two being deleted
C13_Witness ==
  /\ pc = "exited"
  /\ exitCode = 1
  /\ count = 2
  /\ Len(messages) >= 3
  /\ Last(deleteLog).record = 3

(***************************************************************************)
(* Termination of the deleter.                                             *)
(***************************************************************************)
\* two command lines the validator accepts: a channel filter, and a channel
\* filter with an exclusion
FewArgLists ==
  {<<FlagUserId, UserGood, FlagToken, TokenGood, FlagChannel, ChannelD>>,
   <<FlagUserId, UserGood, FlagToken, TokenGood, FlagChannel, ChannelC,
     FlagExclude, ExclA>>}

\* the state main() starts in when the command line is one of lists
InitOn(lists) ==
  /\ argv0 \in {<<ScriptName>> \o a : a \in lists}
  /\ argv = argv0
  /\ pc = "start"
  /\ user_id = None /\ token = None /\ channel = None /\ exclusions = <<>>
  /\ headers = [content_type |-> "", authorization |-> None]
  /\ params = [token |-> None, query |-> None, sort |-> "", count |-> 0, page |-> 0]
  /\ messages = <<>> /\ idx = 0 /\ count = 0
  /\ exitCode = NotExited
  /\ stdout = <<>> /\ stderr = <<>>
  /\ searchLog = <<>> /\ deleteLog = <<>>

InitFew == InitOn(FewArgLists)

\* a delete request that is answered with something other than HTTP 429
DeleteOther == \E r \in DeleteResponses : r.status # 429 /\ Delete(r)

\* main() runs on, and the server does not answer 429 for ever
LiveSpec == InitFew /\ [][Next]_vars /\ WF_vars(DeleteOther) /\ WF_vars(Finish)

\* C14: the retry loop has no attempt limit: after a 429 answer the deleter
\* is still at the same record, has not terminated, and is about to send the
\* request again, and the request after a 429 answer is for the same record;
\* if the server does not answer 429 for ever, a run whose collector has
\* stopped terminates, with exit code 0 or 1.
C14_RetriesUntilAnswered ==
  /\ []((deleteLog # <<>> /\ IsRateLimited(Last(deleteLog).resp)) =>
          /\ pc = "delete" /\ exitCode = NotExited
          /\ idx = Last(deleteLog).record /\ idx <= Len(messages)
          /\ ENABLED DeleteOther)
  /\ [](\A j \in 1..(Len(deleteLog) - 1) :
          IsRateLimited(deleteLog[j].resp) =>
            /\ deleteLog[j + 1].record = deleteLog[j].record
            /\ deleteLog[j + 1].data = deleteLog[j].data)
  /\ (pc = "delete") ~> (pc = "exited" /\ exitCode \in {0, 1})

\* the same record was answered 429 as often as the server does in a run,
\* and the deleter is still at it
C14_Witness ==
  /\ Len(deleteLog) >= MaxRateLimits
  /\ \A j \in 1..Len(deleteLog) :
       j > Len(deleteLog) - MaxRateLimits =>
         IsRateLimited(deleteLog[j].resp) /\ deleteLog[j].record = idx
  /\ pc = "delete"

(***************************************************************************)
(* Pagination against a server whose page_count may also be 0.             *)
(***************************************************************************)
\* the answers of search.messages, and pages that report a page_count of 0
PagingResponses ==
  SearchResponses \cup
    {Answer("http", 200, TRUE, Len(m) + 1, m, 0) : m \in Pages}

PagingArgLists ==
  {<<FlagUserId, UserGood, FlagToken, TokenGood, FlagChannel, ChannelD>>}

InitPaging == InitOn(PagingArgLists)

PagingSearchStep == \E r \in PagingResponses : Search(r)

PagingNext ==
  \/ Start
  \/ ParseUserId
  \/ ParseToken
  \/ ParseChannel
  \/ ParseExclude
  \/ PagingSearchStep
  \/ DeleteStep
  \/ Finish

PagingSpec == InitPaging /\ [][PagingNext]_vars

\* the answers so far are all pages whose page_count is below the page
\* requested
AllBelowRequested ==
  \A j \in 1..Len(searchLog) :
    /\ IsPageAnswer(searchLog[j].resp)
    /\ searchLog[j].resp.page_count < searchLog[j].params.page

\* C15: after a page answer (200, ok, non-zero total) the collector has
\* stopped if and only if the page_count of that answer equals the page
\* number of its request; otherwise the collector goes on and the page it
\* requests next is one higher.  While every answer reports a page_count
\* below the requested page (0, or a count that shrank) the collector never
\* stops and the page number has grown by one per answer.
C15_StopsOnlyOnEqualPageCount ==
  /\ \A j \in 1..Len(searchLog) :
       IsPageAnswer(searchLog[j].resp) =>
         IF searchLog[j].params.page = searchLog[j].resp.page_count
         THEN j = Len(searchLog) /\ pc # "collect"
         ELSE IF j < Len(searchLog)
              THEN searchLog[j + 1].params.page = searchLog[j].params.page + 1
              ELSE pc = "collect" /\ params.page = searchLog[j].params.page + 1
  /\ (searchLog # <<>> /\ AllBelowRequested) =>
       pc = "collect" /\ params.page = Len(searchLog) + 1 /\ deleteLog = <<>>

\* page 1 was answered with page_count 0 and a later page with a page_count
\* that is below it, and the collector is about to request a further page
C15_Witness ==
  /\ Len(searchLog) >= 2
  /\ AllBelowRequested
  /\ searchLog[1].resp.page_count = 0
  /\ Last(searchLog).resp.page_count > 0
  /\ pc = "collect"
  /\ params.page = Len(searchLog) + 1

(***************************************************************************)
(* Command lines with --exclude.                                           *)
(***************************************************************************)
\* the 16 digits of ExclA followed by a newline
ExclANewline == ExclA \o <<"\n">>

\* --exclude as the last flag: with values that match, with a value that ends
\* in a newline, with a short value, with a flag among its values, and with
\* no value
ExcludeArgLists ==
  {<<FlagUserId, UserGood, FlagToken, TokenGood, FlagExclude, ExclB, ExclA>>,
   <<FlagUserId, UserGood, FlagToken, TokenGood, FlagChannel, ChannelC,
     FlagExclude, ExclA>>,
   <<FlagUserId, UserGood, FlagToken, TokenGood, FlagChannel, ChannelC,
     FlagExclude, ExclANewline>>,
   <<FlagUserId, UserGood, FlagToken, TokenGood, FlagExclude, ExclB,
     ExclANewline>>,
   <<FlagUserId, UserGood, FlagToken, TokenGood, FlagExclude, ExclA,
     ExclShort>>,
   <<FlagUserId, UserGood, FlagToken, TokenGood, FlagExclude, ExclA,
     FlagChannel, ChannelC>>,
   <<FlagUserId, UserGood, FlagToken, TokenGood, FlagChannel, ChannelC,
     FlagExclude>>}

InitExclude == InitOn(ExcludeArgLists)

ExcludeSpec == InitExclude /\ [][Next]_vars

\* the tokens of a after the first --exclude
AfterExclude(a) == SubSeq(a, FirstIndex(a, FlagExclude) + 1, Len(a))

\* before its --exclude, a is --user-id, --token and possibly --channel in
\* this order, each with one value that matches its pattern, so that
\* --exclude is the first token left when its block runs
ExcludeIsReached(a) ==
  /\ Contains(a, FlagExclude)
  /\ IsPairList(BeforeExclude(a))
  /\ InUsageOrder(a)

\* C16 as claimed: when --exclude is the first token left, every token after
\* it must be exactly 16 digits: a command line with any other token after
\* --exclude, or with none, exits with code 1 before any request; an
\* accepted one has as its exclusions the tokens after --exclude, in order.
C16_ExcludeTakesTheRest ==
  ExcludeIsReached(Args) =>
    IF /\ AfterExclude(Args) # <<>>
       /\ \A k \in 1..Len(AfterExclude(Args)) :
            WellFormed(FlagExclude, AfterExclude(Args)[k])
    THEN /\ ~RejectedByValidator
         /\ Validated => exclusions = AfterExclude(Args)
    ELSE /\ ~Validated
         /\ deleteLog = <<>>
         /\ pc = "exited" => exitCode = 1

(***************************************************************************)
(* A run that deletes more than ten messages.                              *)
(***************************************************************************)
\* the number of matches of the long page
LongPageLen == 20

DigitChars == <<"0", "1", "2", "3", "4", "5", "6", "7", "8", "9">>

\* the k-th timestamp of the long page
TsNo(k) ==
  SubSeq(TsA, 1, 15) \o <<DigitChars[((k \div 10) % 10) + 1], DigitChars[(k % 10) + 1]>>

\* LongPageLen matches of channel C with distinct timestamps
LongPage == [k \in 1..LongPageLen |-> Match(ChannelC, TsNo(k))]

\* the server has one page, the long one
LongResponses == {Answer("http", 200, TRUE, LongPageLen, LongPage, 1)}

LongArgLists == {<<FlagUserId, UserGood, FlagToken, TokenGood>>}

InitLong == InitOn(LongArgLists)

LongSearchStep == \E r \in LongResponses : Search(r)

LongNext ==
  \/ Start
  \/ ParseUserId
  \/ ParseToken
  \/ ParseChannel
  \/ ParseExclude
  \/ LongSearchStep
  \/ DeleteStep
  \/ Finish

LongSpec == InitLong /\ [][LongNext]_vars

\* the progress lines printed so far
ProgressLines == SelectSeq(stdout, LAMBDA l : l.text = "Deleted {} messages.")

\* C17: the number of progress lines printed is floor(count / 10), the k-th
\* of them reporting 10 * k; a progress line is printed by a step exactly
\* when that step is a confirmed deletion that makes count a positive
\* multiple of 10; a 429 answer or a fatal answer prints none and leaves
\* count alone; count never decreases, changes only with a delete answer, and
\* grows by at most 1 per delete answer.
C17_ProgressEveryTenthSuccess ==
  /\ [](/\ Len(ProgressLines) = count \div 10
        /\ \A k \in 1..Len(ProgressLines) : ProgressLines[k].n = 10 * k)
  /\ [][/\ count' >= count /\ count' <= count + 1
        /\ count' # count => deleteLog' # deleteLog
        /\ (ProgressLines' # ProgressLines) <=>
             /\ deleteLog' # deleteLog
             /\ IsDeleted(Last(deleteLog').resp)
             /\ count' = count + 1 /\ count' > 0 /\ count' % 10 = 0
        /\ (deleteLog' # deleteLog /\ ~IsDeleted(Last(deleteLog').resp)) =>
             count' = count /\ ProgressLines' = ProgressLines]_vars

\* twenty deletions were confirmed, with a 429 answer on the way, and the
\* second progress line is out
C17_Witness ==
  /\ count = 20
  /\ RateLimits > 0
  /\ Len(ProgressLines) = 2
  /\ Last(stdout) = [text |-> "Deleted {} messages.", n |-> 20]

(***************************************************************************)
(* Matches the server returns more than once.                              *)
(***************************************************************************)
\* C18 as claimed: the deletion list holds each (channel, ts) pair at most
\* once, and no delete request is sent for a pair for which an earlier delete
\* request of the run was confirmed.
C18_NoPairDeletedTwice ==
  /\ \A i, j \in 1..Len(messages) : i # j => messages[i] # messages[j]
  /\ \A i, j \in 1..Len(deleteLog) :
       (i < j /\ IsDeleted(deleteLog[i].resp)) =>
         deleteLog[j].data # deleteLog[i].data

====
